---- MODULE Spec2Model ----
(***************************************************************************)
(* A model of rgssad (src/src/main.rs): the keystream generator, the byte  *)
(* cipher Coder::copy, and the RGSSAD / RGSS3A archive reader and writer.  *)
(*                                                                         *)
(* A u32 is kept as its four little-endian bytes <<b0, b1, b2, b3>>, the   *)
(* form ru32 / wu32 move to and from the file, so that 32-bit wrapping     *)
(* arithmetic is computed at its real width.                               *)
(***************************************************************************)
EXTENDS Naturals, Integers, Sequences, FiniteSets, TLC

VARIABLES
    \* ---- Coder::copy, one loop iteration at a time
    stream_in,   \* the bytes of the input file of the running copy
    data,        \* the EntryData given to copy: offset, size, magic
    coder,       \* the Coder: its buffer
    cur,         \* copy's locals: magic, size, the input cursor, what was written
    cpc,         \* "idle" | "loop" | "done"
    pass,        \* 1: first copy, 2: copy over the first copy's output
    first,       \* what the first copy was given and what it wrote
    nextcap,     \* buffer capacity of the Coder used for the second copy
    \* ---- the archive, file contents byte for byte
    disk,        \* the file at the archive's location: exists, bytes
    before,      \* what that file was before create, kept while create runs
    files,       \* the source directory in walk order: name, content
    ar,          \* the RGSSArchive being written: magic, version, entry
    wlog,        \* per entry written: where its record, name and data were put
    rd,          \* the RGSSArchive being opened: magic, version, entry, cursor
    result,      \* what create / open returned
    cut,         \* where the archive file was truncated, -1: nowhere
    extracted,   \* what unpack wrote, per entry
    apc,         \* where pack / unpack stand
    \* ---- the archive with files of any u32 size: positions, not contents
    lfiles,      \* the source directory in walk order: name, size
    lar,         \* the RGSSArchive being written: magic, version, entry
    lhead,       \* the archive file's bytes from position 0 up to the first data
    lsegs,       \* the records written after that: position, bytes
    lpos,        \* the writer's cursor, 64 bits
    lput,        \* per entry written: the position its data starts at, its magic
    lrd,         \* the RGSSArchive being opened: magic, version, entry, cursor
    lseek,       \* per entry unpacked: the position copy sought to
    lpc          \* where pack / unpack stand

cvars == <<stream_in, data, coder, cur, cpc, pass, first, nextcap>>

avars == <<disk, before, files, ar, wlog, rd, result, cut, extracted, apc>>

lvars == <<lfiles, lar, lhead, lsegs, lpos, lput, lrd, lseek, lpc>>

vars == <<cvars, avars, lvars>>

----------------------------------------------------------------------------
(* Bytes and 32-bit words *)

Min(a, b) == IF a < b THEN a ELSE b

Max(a, b) == IF a < b THEN b ELSE a

RECURSIVE XorBits(_, _, _)
XorBits(a, b, n) ==
    IF n = 0 THEN 0
    ELSE ((a + b) % 2) + 2 * XorBits(a \div 2, b \div 2, n - 1)

\* u8 ^ u8
Xor8(a, b) == XorBits(a, b, 8)

\* u32 ^ u32, on the little-endian bytes
XorWord(a, b) == [i \in 1..4 |-> Xor8(a[i], b[i])]

\* w.wrapping_mul(m).wrapping_add(a) for small m, a: schoolbook with carries,
\* the carry out of the top byte dropped (mod 2^32)
WrappingMulAdd(w, m, a) ==
    LET t1 == w[1] * m + a
        t2 == w[2] * m + (t1 \div 256)
        t3 == w[3] * m + (t2 \div 256)
        t4 == w[4] * m + (t3 \div 256)
    IN  <<t1 % 256, t2 % 256, t3 % 256, t4 % 256>>

\* n as u32, as its little-endian bytes (u32::to_le_bytes): the low 32 bits
to_le_bytes(n) ==
    <<n % 256, (n \div 256) % 256, (n \div 65536) % 256, (n \div 16777216) % 256>>

\* u32::from_le_bytes, for words below 2^31
from_le_bytes(w) == w[1] + 256 * w[2] + 65536 * w[3] + 16777216 * w[4]

\* 0xDEADCAFE
DEADCAFE == <<254, 202, 173, 222>>

\* 0u32
ZeroWord == <<0, 0, 0, 0>>

----------------------------------------------------------------------------
(* Keystream generator *)

\* fn advance_magic: returns the old state, steps the state
advance_magic(magic) == [old |-> magic, magic |-> WrappingMulAdd(magic, 7, 3)]

----------------------------------------------------------------------------
(* Coder::copy *)

\* fn read_until_full: the number of bytes read into a buffer of `limit`
\* bytes from a file holding `stream`, its cursor at `pos`: reads repeat until
\* the buffer is full or the file ends
read_until_full(stream, pos, limit) ==
    IF pos >= Len(stream) THEN 0 ELSE Min(limit, Len(stream) - pos)

\* the loop over `middle`: word i of the chunk ^= advance_magic(&mut magic)
RECURSIVE middle_loop(_, _, _, _)
middle_loop(buf, i, n, magic) ==
    IF i >= n THEN [buf |-> buf, magic |-> magic]
    ELSE LET a == advance_magic(magic)
             w == XorWord(SubSeq(buf, 4 * i + 1, 4 * i + 4), a.old)
         IN  middle_loop(
                 [k \in 1..Len(buf) |->
                     IF k > 4 * i /\ k <= 4 * i + 4 THEN w[k - 4 * i] ELSE buf[k]],
                 i + 1, n, a.magic)

suffix_loop_shift(buf, n, magic) ==
    [k \in 1..Len(buf) |->
        IF k > 4 * n THEN Xor8(buf[k], magic[4 - (k - 4 * n - 1)]) ELSE buf[k]]

\* the loop over `suffix`: suffix[i] ^= (magic >> (i * 8)) as u8, the
\* generator not stepped
suffix_loop(buf, n, magic) ==
    [k \in 1..Len(buf) |->
        IF k > 4 * n THEN Xor8(buf[k], magic[k - 4 * n]) ELSE buf[k]]

copy_iter_unbounded(stream, cap, st) ==
    LET limit == cap
        count == read_until_full(stream, st.pos, limit)
        buf   == SubSeq(stream, st.pos + 1, st.pos + count)
        mid   == middle_loop(buf, 0, count \div 4, st.magic)
        done  == suffix_loop(mid.buf, count \div 4, mid.magic)
    IN  [count |-> count, chunk |-> done, magic |-> mid.magic,
         size |-> Max(st.size - count, 0), pos |-> st.pos + count]

copy_iter_nocarry(stream, cap, st) ==
    LET limit == Min(cap, st.size)
        count == read_until_full(stream, st.pos, limit)
        buf   == SubSeq(stream, st.pos + 1, st.pos + count)
        mid   == middle_loop(buf, 0, count \div 4, st.magic)
        done  == suffix_loop(mid.buf, count \div 4, mid.magic)
    IN  [count |-> count, chunk |-> done, magic |-> st.magic,
         size |-> st.size - count, pos |-> st.pos + count]

\* one iteration of copy's loop, for a buffer of `cap` bytes: the bytes read,
\* the ciphered chunk handed to write_all, and the locals after it
copy_iter(stream, cap, st) ==
    LET limit == Min(cap, st.size)
        count == read_until_full(stream, st.pos, limit)
        buf   == SubSeq(stream, st.pos + 1, st.pos + count)
        mid   == middle_loop(buf, 0, count \div 4, st.magic)
        done  == suffix_loop(mid.buf, count \div 4, mid.magic)
    IN  [count |-> count, chunk |-> done, magic |-> mid.magic,
         size |-> st.size - count, pos |-> st.pos + count]

\* the whole of copy: what it writes to stream_out
RECURSIVE copy_loop(_, _, _, _)
copy_loop(stream, cap, st, out) ==
    LET it == copy_iter(stream, cap, st)
    IN  IF it.count = 0 THEN out
        ELSE copy_loop(stream, cap,
                       [pos |-> it.pos, magic |-> it.magic, size |-> it.size],
                       out \o it.chunk)

\* the seek to data.offset, the locals, the loop
copy(stream, cap, d) ==
    copy_loop(stream, cap,
              [pos |-> from_le_bytes(d.offset), magic |-> d.magic,
               size |-> from_le_bytes(d.size)], <<>>)

----------------------------------------------------------------------------
(* Bounds of the cipher specification *)

MaxStream == 10
MaxOffset == 2
MaxSize == 11
MaxCapWords == 2

\* bytes the input files are made of: 0x00, '/', '\', 0x80, 0xA7, 0xFF, ...
Pattern == <<0, 47, 92, 128, 167, 255, 1, 254, 90, 165, 16>>

\* an input file: n bytes of the pattern taken cyclically from place r
Stream(r, n) == [k \in 1..n |-> Pattern[((r + k - 1) % Len(Pattern)) + 1]]

Seeds == {DEADCAFE, <<255, 255, 255, 255>>, ZeroWord}

\* the capacities a Coder's buffer may have: assert!(self.buf.len() % 4 == 0)
Capacities == {4 * w : w \in 1..MaxCapWords}

Zeros(n) == [k \in 1..n |-> 0]

----------------------------------------------------------------------------
(* Specification of the cipher: a file is ciphered by copy, and the output *)
(* is ciphered again by copy with the same magic.                          *)

NoArchive == [magic |-> ZeroWord, version |-> 0, entry |-> <<>>]

NoReader == [magic |-> ZeroWord, version |-> 0, entry |-> <<>>, pos |-> 0, why |-> ""]

\* the archive variables while only the cipher runs
AIdle ==
    /\ disk = [exists |-> FALSE, bytes |-> <<>>]
    /\ before = [exists |-> FALSE, bytes |-> <<>>]
    /\ files = <<>>
    /\ ar = NoArchive
    /\ wlog = <<>>
    /\ rd = NoReader
    /\ result = ""
    /\ cut = -1
    /\ extracted = <<>>
    /\ apc = "none"

\* 0u64
ZeroPos == <<0, 0, 0, 0, 0, 0, 0, 0>>

\* the position variables while they are not used
LIdle ==
    /\ lfiles = <<>>
    /\ lar = NoArchive
    /\ lhead = <<>>
    /\ lsegs = <<>>
    /\ lpos = ZeroPos
    /\ lput = <<>>
    /\ lrd = NoReader
    /\ lseek = <<>>
    /\ lpc = "none"

CInit ==
    /\ \E r \in 0..1, n \in 0..MaxStream : stream_in = Stream(r, n)
    /\ \E o \in 0..MaxOffset, s \in 0..MaxSize, m \in Seeds :
           data = [offset |-> to_le_bytes(o), size |-> to_le_bytes(s), magic |-> m]
    /\ \E c \in Capacities : coder = [buf |-> Zeros(c)]
    /\ nextcap \in Capacities
    /\ cur = [pos |-> 0, magic |-> ZeroWord, size |-> 0, out |-> <<>>,
              chunks |-> 0, last |-> 0]
    /\ cpc = "idle"
    /\ pass = 1
    /\ first = [stream |-> <<>>, data |-> data, out |-> <<>>, cap |-> 0]
    /\ AIdle
    /\ LIdle

\* copy, up to its loop: the assert, the seek to data.offset, the locals
CopyEnter ==
    /\ cpc = "idle"
    /\ Len(coder.buf) % 4 = 0
    /\ cur' = [pos |-> from_le_bytes(data.offset), magic |-> data.magic,
               size |-> from_le_bytes(data.size),
               out |-> <<>>, chunks |-> 0, last |-> 0]
    /\ cpc' = "loop"
    /\ UNCHANGED <<stream_in, data, coder, pass, first, nextcap>>
    /\ UNCHANGED avars
    /\ UNCHANGED lvars

\* one iteration that read something: cipher the chunk in the buffer, write it
CopyIter ==
    /\ cpc = "loop"
    /\ LET it == copy_iter(stream_in, Len(coder.buf), cur)
       IN  /\ it.count > 0
           /\ cur' = [pos |-> it.pos, magic |-> it.magic, size |-> it.size,
                      out |-> cur.out \o it.chunk,
                      chunks |-> cur.chunks + 1, last |-> it.count]
           /\ coder' = [buf |-> it.chunk \o SubSeq(coder.buf, it.count + 1, Len(coder.buf))]
    /\ UNCHANGED <<stream_in, data, cpc, pass, first, nextcap>>
    /\ UNCHANGED avars
    /\ UNCHANGED lvars

\* the iteration that read nothing: return Ok(())
CopyReturn ==
    /\ cpc = "loop"
    /\ copy_iter(stream_in, Len(coder.buf), cur).count = 0
    /\ cpc' = "done"
    /\ UNCHANGED <<stream_in, data, coder, cur, pass, first, nextcap>>
    /\ UNCHANGED avars
    /\ UNCHANGED lvars

\* the output of the first copy becomes the input of a second one, with the
\* same magic and size, by the same Coder or by one of another capacity
CopyAgain ==
    /\ cpc = "done"
    /\ pass = 1
    /\ first' = [stream |-> stream_in, data |-> data, out |-> cur.out,
                 cap |-> Len(coder.buf)]
    /\ stream_in' = cur.out
    /\ data' = [offset |-> ZeroWord, size |-> data.size, magic |-> data.magic]
    /\ coder' = IF nextcap = Len(coder.buf) THEN coder ELSE [buf |-> Zeros(nextcap)]
    /\ pass' = 2
    /\ cpc' = "idle"
    /\ UNCHANGED <<cur, nextcap>>
    /\ UNCHANGED avars
    /\ UNCHANGED lvars

CNext == CopyEnter \/ CopyIter \/ CopyReturn \/ CopyAgain

SpecCoder == CInit /\ [][CNext]_vars

----------------------------------------------------------------------------
(* The keystream of the contract *)

RECURSIVE AdvanceTimes(_, _)
AdvanceTimes(s, k) == IF k = 0 THEN s ELSE AdvanceTimes(WrappingMulAdd(s, 7, 3), k - 1)

\* byte i (from 0) of the keystream of seed s: (w_k >> (8 * (i mod 4))) & 0xFF
KeyByte(s, i) == AdvanceTimes(s, i \div 4)[(i % 4) + 1]

\* the bytes of stream the entry d covers
Covered(stream, d) ==
    SubSeq(stream, from_le_bytes(d.offset) + 1,
           Min(Len(stream), from_le_bytes(d.offset) + from_le_bytes(d.size)))

\* the offset and the size of the entry of the running copy, as numbers
EntryOffset == from_le_bytes(data.offset)
EntrySize == from_le_bytes(data.size)

----------------------------------------------------------------------------
(* Claims about Coder::copy *)

\* C1: copy is self-inverse. A copy over b with magic s and a buffer of
\* capacity B1, followed by a copy over its output with magic s and a buffer
\* of capacity B2, writes exactly b: the same length, the same bytes.
C1_SelfInverse ==
    (cpc = "done" /\ pass = 2) => cur.out = Covered(first.stream, first.data)

\* the second copy ended, run with another capacity than the first, over more
\* than two words that the first copy did change
C1_Witness ==
    /\ cpc = "done" /\ pass = 2
    /\ first.cap # Len(coder.buf)
    /\ Len(cur.out) > 8
    /\ first.out # cur.out

\* C2: output byte i of copy, counted from the start of the entry, is input
\* byte i XOR byte (i mod 4) of w_(i div 4), w_0 the entry's magic and
\* w_(j+1) = w_j * 7 + 3 mod 2^32, whatever the capacity, whatever the Coder
\* processed before, and also in a last chunk of 1 to 3 bytes.
C2_Keystream ==
    cpc \in {"loop", "done"} =>
        /\ \A i \in 0..(Len(cur.out) - 1) :
               cur.out[i + 1] = Xor8(stream_in[EntryOffset + i + 1], KeyByte(data.magic, i))
        /\ cpc = "done" => Len(cur.out) = Len(Covered(stream_in, data))

\* a copy of three chunks, the last of 1 to 3 bytes, by a Coder whose buffer
\* holds what an earlier copy left in it
C2_Witness ==
    /\ cpc = "done" /\ pass = 2
    /\ first.cap = Len(coder.buf)
    /\ cur.chunks >= 3
    /\ cur.last \in 1..3

\* C5: copy reads and writes exactly min(size, bytes the input holds from
\* offset) bytes, its cursor never passes offset + size, it writes nothing
\* for size 0, and every iteration that goes on takes at least one byte off
\* what remains (so the loop ends).
C5_Bounded ==
    cpc \in {"loop", "done"} =>
        /\ cur.pos <= EntryOffset + EntrySize
        /\ cur.pos = EntryOffset + Len(cur.out)
        /\ cur.size = EntrySize - Len(cur.out)
        /\ cur.chunks <= Len(cur.out)
        /\ EntrySize = 0 => cur.out = <<>>
        /\ cpc = "done" =>
               Len(cur.out) = Min(EntrySize, Max(Len(stream_in) - EntryOffset, 0))

\* a copy ended on an entry that is followed by more bytes in the input
C5_Witness ==
    /\ cpc = "done" /\ pass = 1
    /\ EntrySize > 0
    /\ Len(stream_in) > EntryOffset + EntrySize
    /\ Len(cur.out) = EntrySize

----------------------------------------------------------------------------
(* File reads, and the conversions of the table codec *)

\* fn ru32: read_exact of 4 bytes at the cursor, as a little-endian word
ru32(stream, pos) ==
    IF pos + 4 <= Len(stream)
    THEN [ok |-> TRUE, val |-> SubSeq(stream, pos + 1, pos + 4), pos |-> pos + 4]
    ELSE [ok |-> FALSE, val |-> ZeroWord, pos |-> pos]

\* stream.read_exact(&mut name): all n bytes, or an error
read_exact(stream, pos, n) ==
    IF pos + n <= Len(stream)
    THEN [ok |-> TRUE, val |-> SubSeq(stream, pos + 1, pos + n), pos |-> pos + n]
    ELSE [ok |-> FALSE, val |-> <<>>, pos |-> pos]

\* String::from_utf8(name).is_ok(), from byte i on
RECURSIVE from_utf8_ok(_, _)
from_utf8_ok(s, i) ==
    IF i > Len(s) THEN TRUE
    ELSE LET b == s[i]
             In(k, lo, hi) == i + k <= Len(s) /\ s[i + k] >= lo /\ s[i + k] <= hi
             Cont(k) == In(k, 128, 191)
         IN  IF b < 128 THEN from_utf8_ok(s, i + 1)
             ELSE IF b >= 194 /\ b <= 223 THEN Cont(1) /\ from_utf8_ok(s, i + 2)
             ELSE IF b = 224 THEN In(1, 160, 191) /\ Cont(2) /\ from_utf8_ok(s, i + 3)
             ELSE IF b = 237 THEN In(1, 128, 159) /\ Cont(2) /\ from_utf8_ok(s, i + 3)
             ELSE IF b >= 225 /\ b <= 239 THEN Cont(1) /\ Cont(2) /\ from_utf8_ok(s, i + 3)
             ELSE IF b = 240
                  THEN In(1, 144, 191) /\ Cont(2) /\ Cont(3) /\ from_utf8_ok(s, i + 4)
             ELSE IF b >= 241 /\ b <= 243
                  THEN Cont(1) /\ Cont(2) /\ Cont(3) /\ from_utf8_ok(s, i + 4)
             ELSE IF b = 244
                  THEN In(1, 128, 143) /\ Cont(2) /\ Cont(3) /\ from_utf8_ok(s, i + 4)
             ELSE FALSE

\* b'/' and b'\\'
Slash == 47
Backslash == 92

\* open_rgssad's loop over the name: a generator step per byte, its low byte
\* xored in, then '\\' turned into '/'
RECURSIVE name_dec_rgssad(_, _, _)
name_dec_rgssad(name, i, magic) ==
    IF i > Len(name) THEN [name |-> name, magic |-> magic]
    ELSE LET a == advance_magic(magic)
             b == Xor8(name[i], a.old[1])
         IN  name_dec_rgssad([name EXCEPT ![i] = IF b = Backslash THEN Slash ELSE b],
                             i + 1, a.magic)

\* write_entries_rgssad's loop over the name: '/' turned into '\\', then a
\* generator step per byte, its low byte xored in
RECURSIVE name_enc_rgssad(_, _, _)
name_enc_rgssad(name, i, magic) ==
    IF i > Len(name) THEN [name |-> name, magic |-> magic]
    ELSE LET a == advance_magic(magic)
             b == IF name[i] = Slash THEN Backslash ELSE name[i]
         IN  name_enc_rgssad([name EXCEPT ![i] = Xor8(b, a.old[1])], i + 1, a.magic)

\* open_rgss3a's loop over the name: byte i ^= (magic >> 8*(i%4)) as u8, then
\* '\\' turned into '/'
name_dec_rgss3a(name, magic) ==
    [k \in 1..Len(name) |->
        LET b == Xor8(name[k], magic[((k - 1) % 4) + 1])
        IN  IF b = Backslash THEN Slash ELSE b]

\* write_entries_rgss3a's loop over the name: '/' turned into '\\', then
\* byte i ^= (magic >> 8*(i%4)) as u8
name_enc_rgss3a(name, magic) ==
    [k \in 1..Len(name) |->
        LET b == IF name[k] = Slash THEN Backslash ELSE name[k]
        IN  Xor8(b, magic[((k - 1) % 4) + 1])]

\* u32::checked_add on little-endian words: None when the sum needs a 33rd bit
checked_add(a, b) ==
    LET s1 == a[1] + b[1]
        s2 == a[2] + b[2] + (s1 \div 256)
        s3 == a[3] + b[3] + (s2 \div 256)
        s4 == a[4] + b[4] + (s3 \div 256)
    IN  [some |-> s4 \div 256 = 0, val |-> <<s1 % 256, s2 % 256, s3 % 256, s4 % 256>>]

\* b"RGSSAD\0" and the version byte
Header(version) == <<82, 71, 83, 83, 65, 68, 0, version>>

\* Coder { buf: vec![0u8; 8192] }
BufLen == 8192

----------------------------------------------------------------------------
(* The table reader: one iteration of each format's loop *)

\* open_rgssad, one iteration up to the entry's magic: the name length, the
\* name, the size, read from `stream` at `pos` and deciphered
read_record_rgssad(stream, pos, magic) ==
    LET r1   == ru32(stream, pos)
        a1   == advance_magic(magic)
        nlen == from_le_bytes(XorWord(r1.val, a1.old))
        r2   == read_exact(stream, r1.pos, nlen)
        dec  == name_dec_rgssad(r2.val, 1, a1.magic)
        r3   == ru32(stream, r2.pos)
        a3   == advance_magic(dec.magic)
    IN  IF ~r1.ok THEN [kind |-> "break", why |-> "eof", magic |-> magic, pos |-> pos]
        ELSE IF ~r2.ok
        THEN [kind |-> "err", why |-> "io", magic |-> a1.magic, pos |-> r1.pos]
        ELSE IF ~from_utf8_ok(dec.name, 1)
        THEN [kind |-> "break", why |-> "utf8", magic |-> dec.magic, pos |-> r2.pos]
        ELSE IF ~r3.ok
        THEN [kind |-> "break", why |-> "eof", magic |-> dec.magic, pos |-> r2.pos]
        ELSE [kind |-> "next", why |-> "", magic |-> a3.magic, pos |-> r3.pos,
              name |-> dec.name, size |-> XorWord(r3.val, a3.old)]

open_rgssad_iter_softname(stream, st) ==
    LET rec == read_record_rgssad(stream, st.pos, st.magic)
        d   == [offset |-> to_le_bytes(rec.pos), size |-> rec.size, magic |-> rec.magic]
    IN  IF rec.kind # "next"
        THEN [kind |-> "break", why |-> "eof", magic |-> rec.magic, pos |-> rec.pos,
              entry |-> st.entry]
        ELSE [kind |-> "next", why |-> "", magic |-> rec.magic,
              pos |-> rec.pos + from_le_bytes(rec.size),
              entry |-> Append(st.entry, [name |-> rec.name, data |-> d])]

\* open_rgssad, one iteration: "next" pushed an entry, "break" left the loop,
\* "err" returned the error of read_exact. The offset is the cursor as u32,
\* the magic the generator after the size; then the seek over the data
open_rgssad_iter(stream, st) ==
    LET rec == read_record_rgssad(stream, st.pos, st.magic)
        d   == [offset |-> to_le_bytes(rec.pos), size |-> rec.size, magic |-> rec.magic]
    IN  IF rec.kind # "next"
        THEN [kind |-> rec.kind, why |-> rec.why, magic |-> rec.magic, pos |-> rec.pos,
              entry |-> st.entry]
        ELSE [kind |-> "next", why |-> "", magic |-> rec.magic,
              pos |-> rec.pos + from_le_bytes(rec.size),
              entry |-> Append(st.entry, [name |-> rec.name, data |-> d])]

\* open_rgss3a, one iteration
open_rgss3a_iter(stream, st) ==
    LET r1     == ru32(stream, st.pos)
        offset == XorWord(r1.val, st.magic)
        r2     == ru32(stream, r1.pos)
        size   == XorWord(r2.val, st.magic)
        r3     == ru32(stream, r2.pos)
        start  == XorWord(r3.val, st.magic)
        r4     == ru32(stream, r3.pos)
        nlen   == from_le_bytes(XorWord(r4.val, st.magic))
        r5     == read_exact(stream, r4.pos, nlen)
        name   == name_dec_rgss3a(r5.val, st.magic)
        d      == [offset |-> offset, size |-> size, magic |-> start]
        Break(why, at) == [kind |-> "break", why |-> why, magic |-> st.magic,
                           pos |-> at, entry |-> st.entry]
    IN  IF ~r1.ok THEN Break("eof", st.pos)
        ELSE IF offset = ZeroWord THEN Break("zero", r1.pos)
        ELSE IF ~r2.ok THEN Break("eof", r1.pos)
        ELSE IF ~r3.ok THEN Break("eof", r2.pos)
        ELSE IF ~r4.ok THEN Break("eof", r3.pos)
        ELSE IF ~r5.ok
        THEN [kind |-> "err", why |-> "io", magic |-> st.magic,
              pos |-> r4.pos, entry |-> st.entry]
        ELSE IF ~from_utf8_ok(name, 1) THEN Break("utf8", r5.pos)
        ELSE [kind |-> "next", why |-> "", magic |-> st.magic, pos |-> r5.pos,
              entry |-> Append(st.entry, [name |-> name, data |-> d])]

----------------------------------------------------------------------------
(* The table writer *)

\* File::open(root.join(name)): the source file of that name
SourceFile(fs, name) == (CHOOSE i \in 1..Len(fs) : fs[i].name = name)

\* write_entries_rgssad, one iteration up to the data: the name length, the
\* name, the size, ciphered with the table generator
record_rgssad(magic, e) ==
    LET a1  == advance_magic(magic)
        w1  == XorWord(to_le_bytes(Len(e.name)), a1.old)
        enc == name_enc_rgssad(e.name, 1, a1.magic)
        a3  == advance_magic(enc.magic)
        w3  == XorWord(e.data.size, a3.old)
    IN  [bytes |-> w1 \o enc.name \o w3, magic |-> a3.magic]

write_rgssad_iter_threaded(bytes, magic, e, content) ==
    LET rec == record_rgssad(magic, e)
        d   == [offset |-> ZeroWord, size |-> e.data.size, magic |-> rec.magic]
    IN  [bytes |-> bytes \o rec.bytes \o copy(content, BufLen, d),
         magic |-> AdvanceTimes(rec.magic, (from_le_bytes(e.data.size) + 3) \div 4),
         log   |-> [rec |-> Len(bytes), name |-> Len(bytes) + 4,
                    data |-> Len(bytes) + Len(rec.bytes), magic |-> d.magic]]

\* write_entries_rgssad, one iteration of its loop: the record, then the
\* entry's data through Coder::copy, which is given a copy of self.magic
write_rgssad_iter(bytes, magic, e, content) ==
    LET rec == record_rgssad(magic, e)
        d   == [offset |-> ZeroWord, size |-> e.data.size, magic |-> rec.magic]
    IN  [bytes |-> bytes \o rec.bytes \o copy(content, BufLen, d),
         magic |-> rec.magic,
         log   |-> [rec |-> Len(bytes), name |-> Len(bytes) + 4,
                    data |-> Len(bytes) + Len(rec.bytes), magic |-> d.magic]]

RECURSIVE table_end_no_term(_, _, _)
table_end_no_term(entry, i, off) ==
    IF i > Len(entry) THEN off
    ELSE IF ~off.some THEN off
    ELSE LET o1 == checked_add(off.val, to_le_bytes(Len(entry[i].name)))
         IN  IF ~o1.some THEN o1
             ELSE table_end_no_term(entry, i + 1, checked_add(o1.val, to_le_bytes(16)))

\* write_entries_rgss3a, first loop: the offset of the end of the table
RECURSIVE table_end(_, _, _)
table_end(entry, i, off) ==
    IF i > Len(entry) THEN checked_add(off.val, to_le_bytes(4))
    ELSE IF ~off.some THEN off
    ELSE LET o1 == checked_add(off.val, to_le_bytes(Len(entry[i].name)))
         IN  IF ~o1.some THEN o1
             ELSE table_end(entry, i + 1, checked_add(o1.val, to_le_bytes(16)))

\* write_entries_rgss3a, second loop: each entry's offset and magic
RECURSIVE assign_offsets(_, _, _)
assign_offsets(entry, i, off) ==
    IF i > Len(entry) THEN [some |-> TRUE, entry |-> entry]
    ELSE LET nxt == checked_add(off, entry[i].data.size)
             e   == [name |-> entry[i].name,
                     data |-> [offset |-> off,
                               size |-> entry[i].data.size, magic |-> DEADCAFE]]
         IN  IF ~nxt.some THEN [some |-> FALSE, entry |-> entry]
             ELSE assign_offsets([entry EXCEPT ![i] = e], i + 1, nxt.val)

\* write_entries_rgss3a, third loop: the table records
RECURSIVE table_records(_, _, _, _, _)
table_records(entry, i, magic, bytes, log) ==
    IF i > Len(entry) THEN [bytes |-> bytes, log |-> log]
    ELSE LET e == entry[i]
             rec == bytes
                    \o XorWord(e.data.offset, magic)
                    \o XorWord(e.data.size, magic)
                    \o XorWord(e.data.magic, magic)
                    \o XorWord(to_le_bytes(Len(e.name)), magic)
                    \o name_enc_rgss3a(e.name, magic)
         IN  table_records(entry, i + 1, magic, rec,
                 Append(log, [rec |-> Len(bytes), name |-> Len(bytes) + 16,
                              data |-> 0, magic |-> e.data.magic]))

\* write_entries_rgss3a, last loop: each file's data through Coder::copy
RECURSIVE data_region(_, _, _, _, _)
data_region(entry, i, fs, bytes, log) ==
    IF i > Len(entry) THEN [bytes |-> bytes, log |-> log]
    ELSE LET e == entry[i]
             d == [offset |-> ZeroWord, size |-> e.data.size, magic |-> e.data.magic]
             c == copy(fs[SourceFile(fs, e.name)].content, BufLen, d)
         IN  data_region(entry, i + 1, fs, bytes \o c,
                         [log EXCEPT ![i].data = Len(bytes)])

----------------------------------------------------------------------------
(* Bounds and inputs of the archive specification *)

MaxFiles == 2

\* file names: "a", "s/b", and "d\<e acute>.t" (a backslash, a 2-byte character)
Names == {<<97>>, <<115, 47, 98>>, <<100, 92, 195, 169, 46, 116>>}

\* file contents: empty, "hi", "world"
Contents == {<<>>, <<104, 105>>, <<119, 111, 114, 108, 100>>}

\* a directory: files of distinct names, in the order the walk meets them
Directories ==
    {fs \in UNION {[1..n -> [name : Names, content : Contents]] : n \in 0..MaxFiles} :
        \A i, j \in 1..Len(fs) : fs[i].name = fs[j].name => i = j}

\* the version argument of pack, a u8: the three versions and two others
Versions == 0..4

\* the cipher variables while only the archive runs
CIdle ==
    /\ stream_in = <<>>
    /\ data = [offset |-> ZeroWord, size |-> ZeroWord, magic |-> ZeroWord]
    /\ coder = [buf |-> <<>>]
    /\ nextcap = 0
    /\ cur = [pos |-> 0, magic |-> ZeroWord, size |-> 0, out |-> <<>>,
              chunks |-> 0, last |-> 0]
    /\ cpc = "none"
    /\ pass = 0
    /\ first = [stream |-> <<>>, data |-> data, out |-> <<>>, cap |-> 0]

----------------------------------------------------------------------------
(* Specification of the archive: pack a directory, then open and unpack    *)
(* the archive file, which may have been truncated in between.             *)

AInit ==
    /\ CIdle
    /\ LIdle
    /\ disk \in {[exists |-> FALSE, bytes |-> <<>>],
                 [exists |-> TRUE, bytes |-> <<111, 108, 100>>]}
    /\ before = disk
    /\ files \in Directories
    /\ ar = NoArchive
    /\ wlog = <<>>
    /\ rd = NoReader
    /\ result = ""
    /\ cut = -1
    /\ extracted = <<>>
    /\ apc = "start"

\* RGSSArchive::create: File::create, then the version check, then the header
Create(version) ==
    /\ apc = "start"
    /\ IF version < 1 \/ version > 3
       THEN /\ disk' = [exists |-> TRUE, bytes |-> <<>>]
            /\ result' = "InvalidVersion"
            /\ apc' = "create_failed"
            /\ UNCHANGED <<ar, before>>
       ELSE /\ disk' = [exists |-> TRUE, bytes |-> Header(version)]
            /\ ar' = [magic |-> IF version = 3 THEN ZeroWord ELSE DEADCAFE,
                      version |-> version, entry |-> <<>>]
            /\ result' = "ok"
            /\ apc' = "created"
            /\ before' = [exists |-> FALSE, bytes |-> <<>>]
    /\ UNCHANGED <<files, wlog, rd, cut, extracted>>
    /\ UNCHANGED cvars
    /\ UNCHANGED lvars

\* pack's walkdir: an entry per file, name and size, offset and magic 0
Walkdir ==
    /\ apc = "created"
    /\ ar' = [ar EXCEPT !.entry =
                 [k \in 1..Len(files) |->
                     [name |-> files[k].name,
                      data |-> [size |-> to_le_bytes(Len(files[k].content)),
                                offset |-> ZeroWord, magic |-> ZeroWord]]]]
    /\ apc' = "walked"
    /\ UNCHANGED <<disk, before, files, wlog, rd, result, cut, extracted>>
    /\ UNCHANGED cvars
    /\ UNCHANGED lvars

\* write_entries_rgssad: the next iteration of its loop
WriteEntriesRgssadIter ==
    /\ apc = "walked"
    /\ ar.version \in {1, 2}
    /\ Len(wlog) < Len(ar.entry)
    /\ LET e == ar.entry[Len(wlog) + 1]
           w == write_rgssad_iter(disk.bytes, ar.magic, e,
                                  files[SourceFile(files, e.name)].content)
       IN  /\ disk' = [disk EXCEPT !.bytes = w.bytes]
           /\ ar' = [ar EXCEPT !.magic = w.magic]
           /\ wlog' = Append(wlog, w.log)
    /\ UNCHANGED <<before, files, rd, result, cut, extracted, apc>>
    /\ UNCHANGED cvars
    /\ UNCHANGED lvars

\* write_entries_rgssad: the loop is over, Ok(())
WriteEntriesRgssadDone ==
    /\ apc = "walked"
    /\ ar.version \in {1, 2}
    /\ Len(wlog) = Len(ar.entry)
    /\ apc' = "written"
    /\ UNCHANGED <<disk, before, files, ar, wlog, rd, result, cut, extracted>>
    /\ UNCHANGED cvars
    /\ UNCHANGED lvars

\* write_entries_rgss3a: offsets (a checked_add that fails panics), the seed,
\* the table, its terminator, the data
WriteEntriesRgss3a ==
    /\ apc = "walked"
    /\ ar.version = 3
    /\ LET tend  == table_end(ar.entry, 1, [some |-> TRUE, val |-> to_le_bytes(8 + 4)])
           asg   == IF tend.some THEN assign_offsets(ar.entry, 1, tend.val)
                    ELSE [some |-> FALSE, entry |-> ar.entry]
           magic == WrappingMulAdd(ar.magic, 9, 3)
           tab   == table_records(asg.entry, 1, magic, disk.bytes \o ar.magic, <<>>)
           term  == tab.bytes \o XorWord(ZeroWord, magic)
           dat   == data_region(asg.entry, 1, files, term, tab.log)
       IN  IF ~asg.some
           THEN /\ apc' = "panicked"
                /\ UNCHANGED <<disk, ar, wlog>>
           ELSE /\ disk' = [disk EXCEPT !.bytes = dat.bytes]
                /\ ar' = [ar EXCEPT !.magic = magic, !.entry = asg.entry]
                /\ wlog' = dat.log
                /\ apc' = "written"
    /\ UNCHANGED <<before, files, rd, result, cut, extracted>>
    /\ UNCHANGED cvars
    /\ UNCHANGED lvars

\* the first position a truncation is taken at: after the header, and for
\* version 3 after the seed word
TableStart == IF ar.version = 3 THEN 8 + 4 ELSE 8

\* the archive file loses everything from position p on
Truncate(p) ==
    /\ apc = "written"
    /\ cut = -1
    /\ p >= TableStart /\ p < Len(disk.bytes)
    /\ disk' = [disk EXCEPT !.bytes = SubSeq(disk.bytes, 1, p)]
    /\ cut' = p
    /\ UNCHANGED <<before, files, ar, wlog, rd, result, extracted, apc>>
    /\ UNCHANGED cvars
    /\ UNCHANGED lvars

\* RGSSArchive::open up to the table loop: the header, the version, and for
\* version 3 the seed
Open ==
    /\ apc = "written"
    /\ LET h    == read_exact(disk.bytes, 0, 8)
           seed == ru32(disk.bytes, 8)
       IN  IF ~h.ok
           THEN result' = "Io" /\ apc' = "open_failed" /\ UNCHANGED rd
           ELSE IF SubSeq(h.val, 1, 6) # SubSeq(Header(0), 1, 6)
           THEN result' = "InvalidHeader" /\ apc' = "open_failed" /\ UNCHANGED rd
           ELSE IF h.val[8] \in {1, 2}
           THEN /\ rd' = [magic |-> DEADCAFE, version |-> h.val[8], entry |-> <<>>,
                          pos |-> 8, why |-> ""]
                /\ apc' = "reading"
                /\ UNCHANGED result
           ELSE IF h.val[8] # 3
           THEN result' = "InvalidVersion" /\ apc' = "open_failed" /\ UNCHANGED rd
           ELSE IF ~seed.ok
           THEN result' = "MagicReadFailed" /\ apc' = "open_failed" /\ UNCHANGED rd
           ELSE /\ rd' = [magic |-> WrappingMulAdd(seed.val, 9, 3), version |-> 3,
                          entry |-> <<>>, pos |-> seed.pos, why |-> ""]
                /\ apc' = "reading"
                /\ UNCHANGED result
    /\ UNCHANGED <<disk, before, files, ar, wlog, cut, extracted>>
    /\ UNCHANGED cvars
    /\ UNCHANGED lvars

\* one iteration of open_rgssad's or open_rgss3a's loop; after a break the
\* seek back to the start and Ok(archive)
OpenRecord ==
    /\ apc = "reading"
    /\ LET st == [pos |-> rd.pos, magic |-> rd.magic, entry |-> rd.entry]
           it == IF rd.version = 3 THEN open_rgss3a_iter(disk.bytes, st)
                 ELSE open_rgssad_iter(disk.bytes, st)
       IN  IF it.kind = "next"
           THEN /\ rd' = [rd EXCEPT !.magic = it.magic, !.pos = it.pos,
                                    !.entry = it.entry]
                /\ UNCHANGED <<result, apc>>
           ELSE IF it.kind = "break"
           THEN /\ rd' = [rd EXCEPT !.magic = it.magic, !.pos = 0, !.why = it.why]
                /\ result' = "ok"
                /\ apc' = "opened"
           ELSE /\ rd' = [rd EXCEPT !.magic = it.magic, !.pos = it.pos, !.why = it.why]
                /\ result' = "Io"
                /\ apc' = "open_failed"
    /\ UNCHANGED <<disk, before, files, ar, wlog, cut, extracted>>
    /\ UNCHANGED cvars
    /\ UNCHANGED lvars

\* unpack, one iteration of its loop: the next entry through Coder::copy
Extract ==
    /\ apc = "opened"
    /\ Len(extracted) < Len(rd.entry)
    /\ extracted' = Append(extracted,
           copy(disk.bytes, BufLen, rd.entry[Len(extracted) + 1].data))
    /\ UNCHANGED <<disk, before, files, ar, wlog, rd, result, cut, apc>>
    /\ UNCHANGED cvars
    /\ UNCHANGED lvars

\* unpack: the loop is over
UnpackDone ==
    /\ apc = "opened"
    /\ Len(extracted) = Len(rd.entry)
    /\ apc' = "unpacked"
    /\ UNCHANGED <<disk, before, files, ar, wlog, rd, result, cut, extracted>>
    /\ UNCHANGED cvars
    /\ UNCHANGED lvars

ANext ==
    \/ \E v \in Versions : Create(v)
    \/ Walkdir
    \/ WriteEntriesRgssadIter
    \/ WriteEntriesRgssadDone
    \/ WriteEntriesRgss3a
    \/ \E p \in 0..Len(disk.bytes) : Truncate(p)
    \/ Open
    \/ OpenRecord
    \/ Extract
    \/ UnpackDone

SpecArchive == AInit /\ [][ANext]_vars

----------------------------------------------------------------------------
(* Claims about the archive *)

\* a name with every backslash replaced by a forward slash
Normalized(name) == [k \in 1..Len(name) |-> IF name[k] = Backslash THEN Slash ELSE name[k]]

RECURSIVE SumSizes(_, _)
SumSizes(fs, k) == IF k = 0 THEN 0 ELSE Len(fs[k].content) + SumSizes(fs, k - 1)

\* the generator steps the legacy table takes for its first k records:
\* name length word, name bytes, size word
RECURSIVE TableSteps(_, _)
TableSteps(entry, k) == IF k = 0 THEN 0 ELSE Len(entry[k].name) + 2 + TableSteps(entry, k - 1)

\* where the version 3 terminator word lies: after the last record
TermPos == IF wlog = <<>> THEN 8 + 4 ELSE wlog[Len(wlog)].name + Len(files[Len(wlog)].name)

\* C4: version 3, the file as written: open recovers the n entries in order,
\* stops at the terminator word, which decodes to offset 0; no entry's offset
\* is 0; every offset is the file position where the entry's data starts,
\* the table's end plus the sizes of the entries before it; and unpack
\* reproduces every file's content.
C4_ModernRoundTrip ==
    (ar.version = 3 /\ cut = -1 /\ apc \in {"opened", "unpacked"}) =>
        /\ result = "ok"
        /\ rd.why = "zero"
        /\ XorWord(SubSeq(disk.bytes, TermPos + 1, TermPos + 4), rd.magic) = ZeroWord
        /\ Len(rd.entry) = Len(files)
        /\ \A k \in 1..Len(files) :
              /\ from_le_bytes(rd.entry[k].data.offset) = wlog[k].data
              /\ rd.entry[k].data.offset # ZeroWord
              /\ wlog[k].data = TermPos + 4 + SumSizes(files, k - 1)
              /\ from_le_bytes(rd.entry[k].data.size) = Len(files[k].content)
              /\ rd.entry[k].name = Normalized(files[k].name)
        /\ apc = "unpacked" =>
              \A k \in 1..Len(files) : extracted[k] = files[k].content

\* a version 3 archive of two files with content, written, opened, unpacked
C4_Witness ==
    /\ ar.version = 3 /\ cut = -1 /\ apc = "unpacked"
    /\ Len(files) = 2
    /\ Len(extracted) = 2
    /\ Len(files[1].content) = 5 /\ Len(files[2].content) = 2

\* the records of the table that end at or before position p
Complete(p) ==
    Cardinality({k \in 1..Len(wlog) :
        (IF ar.version = 3 THEN wlog[k].name + Len(files[k].name) ELSE wlog[k].data) <= p})

\* position p leaves a name length read in full and its name cut short
InName(p) ==
    \E k \in 1..Len(wlog) : wlog[k].name <= p /\ p < wlog[k].name + Len(files[k].name)

\* open returned the first m entries of the archive as written
EntriesAre(m) ==
    /\ Len(rd.entry) = m
    /\ \A k \in 1..m :
          /\ rd.entry[k].name = Normalized(files[k].name)
          /\ from_le_bytes(rd.entry[k].data.size) = Len(files[k].content)

C7_EntryWithinFile ==
    apc \in {"opened", "unpacked"} =>
        \A k \in 1..Len(rd.entry) :
            from_le_bytes(rd.entry[k].data.offset) + from_le_bytes(rd.entry[k].data.size)
                <= Len(disk.bytes)

\* C9: in write_entries_rgssad and in open_rgssad, after k entries the table
\* generator is 0xDEADCAFE stepped sum (L_j + 2) times, whatever the data,
\* and the magic of entry k's data is the generator after entry k's size.
C9_TableThreading ==
    /\ ar.version \in {1, 2} =>
          /\ ar.magic = AdvanceTimes(DEADCAFE, TableSteps(ar.entry, Len(wlog)))
          /\ \A k \in 1..Len(wlog) :
                wlog[k].magic = AdvanceTimes(DEADCAFE, TableSteps(ar.entry, k))
    /\ rd.version \in {1, 2} =>
          /\ apc = "reading" =>
                rd.magic = AdvanceTimes(DEADCAFE, TableSteps(rd.entry, Len(rd.entry)))
          /\ \A k \in 1..Len(rd.entry) :
                rd.entry[k].data.magic = AdvanceTimes(DEADCAFE, TableSteps(rd.entry, k))

\* a legacy archive of two files of different sizes, both records read back
C9_Witness ==
    /\ rd.version \in {1, 2} /\ apc = "reading"
    /\ Len(rd.entry) = 2
    /\ Len(wlog) = 2
    /\ Len(files[1].content) = 5 /\ Len(files[2].content) = 2

\* C10: create with a version outside 1..3 returns InvalidVersion and leaves
\* the file at the location as it was: not created, not emptied.
C10_CreateLeavesFile ==
    apc = "create_failed" => (result = "InvalidVersion" /\ disk = before)

----------------------------------------------------------------------------
(* The archive with files of any u32 size. The bytes of the header and of  *)
(* the table records are kept, with the 64-bit file position each record   *)
(* lies at; an entry's data is kept as its position and length only.       *)

\* u64 + u64 on little-endian bytes
RECURSIVE AddBytes(_, _, _, _)
AddBytes(a, b, i, carry) ==
    IF i > Len(a) THEN <<>>
    ELSE <<(a[i] + b[i] + carry) % 256>>
         \o AddBytes(a, b, i + 1, (a[i] + b[i] + carry) \div 256)

Add64(a, b) == AddBytes(a, b, 1, 0)

\* u32 as u64, u32 as i64 (seek), usize as u64 for a small count
Widen(w) == w \o ZeroWord
Pos64(n) == to_le_bytes(n) \o ZeroWord

\* u64 as u32: the low 32 bits
Low32(p) == SubSeq(p, 1, 4)

MaxBigFiles == 2

\* file sizes: 5, 2^31 - 1, 2^32 - 16, 2^32 - 1
BigSizes == {<<5, 0, 0, 0>>, <<255, 255, 255, 127>>, <<240, 255, 255, 255>>,
             <<255, 255, 255, 255>>}

BigDirectories ==
    {fs \in UNION {[1..n -> [name : Names, size : BigSizes]] : n \in 0..MaxBigFiles} :
        \A i, j \in 1..Len(fs) : fs[i].name = fs[j].name => i = j}

\* write_entries_rgss3a, last loop: where each file's data is put
RECURSIVE data_positions(_, _, _, _)
data_positions(entry, i, pos, put) ==
    IF i > Len(entry) THEN [pos |-> pos, put |-> put]
    ELSE data_positions(entry, i + 1, Add64(pos, Widen(entry[i].data.size)),
                        Append(put, [data |-> pos, magic |-> entry[i].data.magic]))

\* the record that lies at position p, if one does
RecordAt(p) == {i \in 1..Len(lsegs) : lsegs[i].at = p}

\* pack up to write_entries: create has written the header, walkdir has
\* pushed an entry per file
LInit ==
    /\ CIdle
    /\ AIdle
    /\ lfiles \in BigDirectories
    /\ \E version \in 1..3 :
          /\ lar = [magic |-> IF version = 3 THEN ZeroWord ELSE DEADCAFE,
                    version |-> version,
                    entry |-> [k \in 1..Len(lfiles) |->
                                 [name |-> lfiles[k].name,
                                  data |-> [size |-> lfiles[k].size, offset |-> ZeroWord,
                                            magic |-> ZeroWord]]]]
          /\ lhead = Header(version)
    /\ lsegs = <<>>
    /\ lpos = Pos64(8)
    /\ lput = <<>>
    /\ lrd = NoReader
    /\ lseek = <<>>
    /\ lpc = "walked"

\* write_entries_rgssad: the next iteration of its loop; copy writes the
\* file's size bytes after the record
LWriteEntriesRgssadIter ==
    /\ lpc = "walked"
    /\ lar.version \in {1, 2}
    /\ Len(lput) < Len(lar.entry)
    /\ LET e   == lar.entry[Len(lput) + 1]
           rec == record_rgssad(lar.magic, e)
           dat == Add64(lpos, Pos64(Len(rec.bytes)))
       IN  /\ lsegs' = Append(lsegs, [at |-> lpos, bytes |-> rec.bytes])
           /\ lput' = Append(lput, [data |-> dat, magic |-> rec.magic])
           /\ lpos' = Add64(dat, Widen(e.data.size))
           /\ lar' = [lar EXCEPT !.magic = rec.magic]
    /\ UNCHANGED <<lfiles, lhead, lrd, lseek, lpc>>
    /\ UNCHANGED <<cvars, avars>>

\* write_entries_rgssad: the loop is over, Ok(())
LWriteEntriesRgssadDone ==
    /\ lpc = "walked"
    /\ lar.version \in {1, 2}
    /\ Len(lput) = Len(lar.entry)
    /\ lpc' = "written"
    /\ UNCHANGED <<lfiles, lar, lhead, lsegs, lpos, lput, lrd, lseek>>
    /\ UNCHANGED <<cvars, avars>>

\* write_entries_rgss3a: offsets (a checked_add that fails panics), the seed,
\* the table, its terminator, the data
LWriteEntriesRgss3a ==
    /\ lpc = "walked"
    /\ lar.version = 3
    /\ LET tend  == table_end(lar.entry, 1, [some |-> TRUE, val |-> to_le_bytes(8 + 4)])
           asg   == IF tend.some THEN assign_offsets(lar.entry, 1, tend.val)
                    ELSE [some |-> FALSE, entry |-> lar.entry]
           magic == WrappingMulAdd(lar.magic, 9, 3)
           tab   == table_records(asg.entry, 1, magic, lhead \o lar.magic, <<>>)
           term  == tab.bytes \o XorWord(ZeroWord, magic)
           dat   == data_positions(asg.entry, 1, Pos64(Len(term)), <<>>)
       IN  IF ~asg.some
           THEN /\ lpc' = "panicked"
                /\ UNCHANGED <<lar, lhead, lpos, lput>>
           ELSE /\ lhead' = term
                /\ lar' = [lar EXCEPT !.magic = magic, !.entry = asg.entry]
                /\ lput' = dat.put
                /\ lpos' = dat.pos
                /\ lpc' = "written"
    /\ UNCHANGED <<lfiles, lsegs, lrd, lseek>>
    /\ UNCHANGED <<cvars, avars>>

\* RGSSArchive::open up to the table loop
LOpen ==
    /\ lpc = "written"
    /\ LET h    == read_exact(lhead, 0, 8)
           seed == ru32(lhead, 8)
       IN  IF ~h.ok \/ SubSeq(h.val, 1, 6) # SubSeq(Header(0), 1, 6)
              \/ h.val[8] \notin {1, 2, 3} \/ (h.val[8] = 3 /\ ~seed.ok)
           THEN lpc' = "open_failed" /\ UNCHANGED lrd
           ELSE /\ lrd' = [magic |-> IF h.val[8] = 3 THEN WrappingMulAdd(seed.val, 9, 3)
                                     ELSE DEADCAFE,
                           version |-> h.val[8], entry |-> <<>>,
                           pos |-> IF h.val[8] = 3 THEN Pos64(seed.pos) ELSE Pos64(8),
                           why |-> ""]
                /\ lpc' = "reading"
    /\ UNCHANGED <<lfiles, lar, lhead, lsegs, lpos, lput, lseek>>
    /\ UNCHANGED <<cvars, avars>>

\* open_rgssad, one iteration, the cursor 64 bits wide: the record at the
\* cursor, the offset the cursor as u32, the seek over the data
lopen_rgssad_iter(st) ==
    LET at  == RecordAt(st.pos)
        seg == lsegs[CHOOSE i \in at : TRUE]
        rec == read_record_rgssad(seg.bytes, 0, st.magic)
        abs == Add64(st.pos, Pos64(rec.pos))
        d   == [offset |-> Low32(abs), size |-> rec.size, magic |-> rec.magic]
    IN  IF at = {}
        THEN [kind |-> "break", why |-> "eof", magic |-> st.magic, pos |-> st.pos,
              entry |-> st.entry]
        ELSE IF rec.kind # "next"
        THEN [kind |-> rec.kind, why |-> rec.why, magic |-> rec.magic, pos |-> abs,
              entry |-> st.entry]
        ELSE [kind |-> "next", why |-> "", magic |-> rec.magic,
              pos |-> Add64(abs, Widen(rec.size)),
              entry |-> Append(st.entry, [name |-> rec.name, data |-> d])]

\* open_rgss3a, one iteration: the table lies in the head of the file
lopen_rgss3a_iter(st) ==
    LET it == open_rgss3a_iter(lhead, [pos |-> from_le_bytes(Low32(st.pos)),
                                       magic |-> st.magic, entry |-> st.entry])
    IN  [kind |-> it.kind, why |-> it.why, magic |-> it.magic, pos |-> Pos64(it.pos),
         entry |-> it.entry]

\* one iteration of open_rgssad's or open_rgss3a's loop; after a break the
\* seek back to the start and Ok(archive)
LOpenRecord ==
    /\ lpc = "reading"
    /\ LET st == [pos |-> lrd.pos, magic |-> lrd.magic, entry |-> lrd.entry]
           it == IF lrd.version = 3 THEN lopen_rgss3a_iter(st) ELSE lopen_rgssad_iter(st)
       IN  IF it.kind = "next"
           THEN /\ lrd' = [lrd EXCEPT !.magic = it.magic, !.pos = it.pos,
                                      !.entry = it.entry]
                /\ UNCHANGED lpc
           ELSE IF it.kind = "break"
           THEN /\ lrd' = [lrd EXCEPT !.magic = it.magic, !.pos = ZeroPos, !.why = it.why]
                /\ lpc' = "opened"
           ELSE /\ lrd' = [lrd EXCEPT !.magic = it.magic, !.pos = it.pos, !.why = it.why]
                /\ lpc' = "open_failed"
    /\ UNCHANGED <<lfiles, lar, lhead, lsegs, lpos, lput, lseek>>
    /\ UNCHANGED <<cvars, avars>>

\* unpack, one iteration of its loop: copy seeks to data.offset as u64
LExtract ==
    /\ lpc = "opened"
    /\ Len(lseek) < Len(lrd.entry)
    /\ lseek' = Append(lseek, Widen(lrd.entry[Len(lseek) + 1].data.offset))
    /\ UNCHANGED <<lfiles, lar, lhead, lsegs, lpos, lput, lrd, lpc>>
    /\ UNCHANGED <<cvars, avars>>

\* unpack: the loop is over
LUnpackDone ==
    /\ lpc = "opened"
    /\ Len(lseek) = Len(lrd.entry)
    /\ lpc' = "unpacked"
    /\ UNCHANGED <<lfiles, lar, lhead, lsegs, lpos, lput, lrd, lseek>>
    /\ UNCHANGED <<cvars, avars>>

LNext ==
    \/ LWriteEntriesRgssadIter
    \/ LWriteEntriesRgssadDone
    \/ LWriteEntriesRgss3a
    \/ LOpen
    \/ LOpenRecord
    \/ LExtract
    \/ LUnpackDone

SpecLayout == LInit /\ [][LNext]_vars

----------------------------------------------------------------------------
(* Claims about archives of any size *)

\* C3: versions 1 and 2: create and write_entries, then open and unpack,
\* recover as many entries, in order, each with its size, its name with
\* backslashes turned into slashes, and its content: copy reads the entry's
\* size bytes from where its data was written, with the magic they were
\* ciphered with.
C3_LegacyRoundTrip ==
    (lpc = "unpacked" /\ lar.version \in {1, 2}) =>
        /\ Len(lrd.entry) = Len(lfiles)
        /\ \A k \in 1..Len(lfiles) :
              /\ lrd.entry[k].name = Normalized(lfiles[k].name)
              /\ lrd.entry[k].data.size = lfiles[k].size
              /\ lrd.entry[k].data.magic = lput[k].magic
              /\ lseek[k] = lput[k].data

\* C8: write_entries never completes on an archive in which an entry's data
\* starts at a position other than the 32-bit offset recorded for it, in the
\* version 3 table or by open for versions 1 and 2.
C8_NoSilentWrap ==
    lpc \in {"opened", "unpacked"} =>
        /\ Len(lrd.entry) = Len(lput)
        /\ \A k \in 1..Len(lput) : Widen(lrd.entry[k].data.offset) = lput[k].data

\* open's cursor is at a record or at the end of the file
LCursorAtRecord ==
    (lpc = "reading" /\ lrd.version \in {1, 2} /\ RecordAt(lrd.pos) = {}) => lrd.pos = lpos

====
